---- MODULE Spec2Model ----
(***************************************************************************)
(* Screening-and-execution pipeline of votron.                             *)
(*                                                                         *)
(* The module models the ProposalScreener class (src/src/proposalScreener  *)
(* .ts) together with the HTTP handlers that drive it (src/src/routes/     *)
(* screener.ts).  The source file holds two revisions of the class: the    *)
(* later one (lines 576-1009, with the executionResults map) is modelled   *)
(* by Spec, the earlier one (lines 34-527, with autonomousMode and the     *)
(* reject transaction) by SpecRev1.  SpecCap is Spec started from a history *)
(* that already holds HistoryCap results.  SpecListener models the event   *)
(* stream listener of src/src/index.ts (startEventStream and the socket    *)
(* handlers it registers).                                                 *)
(*                                                                         *)
(* JavaScript runs one handler at a time and switches handlers only at an  *)
(* await of real I/O.  Every action below is therefore one run of a        *)
(* handler from one network await to the next: the request arriving, the   *)
(* Judgment Provider answering, the Execution Client answering.            *)
(***************************************************************************)
EXTENDS Integers, Sequences, FiniteSets, TLC

\* ------------------------------------------------------------------ bounds
MaxTasks == 2          \* requests handled in one run
NumIds == 2            \* distinct proposal ids
NumProposers == 1      \* distinct proposer accounts
MaxSockets == 14       \* WebSocket objects created in one run
MaxCalls == 3          \* calls of startEventStream from outside its handlers
MaxMessages == 2       \* stream messages received in one run
MaxEvents == 2         \* events in one stream message

\* ------------------------------------------------------- program constants
HistoryCap == 1000     \* saveResult evicts the oldest entry above this size
maxReconnectAttempts == 5

Tasks == 1..MaxTasks
Ids == 1..NumIds
NoId == 0              \* a request body without proposalId
ProposerNames == <<"p1", "p2", "p3", "p4">>
Proposers == {ProposerNames[i] : i \in 1..NumProposers}
NoProposer == "absent"        \* proposal without proposer_id
NoProposal == "no_proposal"   \* request body without proposal

\* Answers of the Judgment Provider (fetch + body) seen by askAI.
AiErrors == {"network_error", "http_error", "malformed_body"}
AiTexts == {"json_approve", "json_reject", "text_approve", "bad_json"}
AiOutcomes == AiErrors \cup AiTexts

\* Answers of the Execution Client (queuedAgentCall) seen by
\* executeViaAgentContract.
ExecOutcomes == {"hash", "no_hash", "error_field", "throws"}

VARIABLES
    trustedProposers,   \* criteria.trustedProposers
    blockedProposers,   \* criteria.blockedProposers
    apiKey,             \* criteria.apiKey || ANTHROPIC_API_KEY is set
    agentAccountId,     \* this.agentAccountId is set
    votingContractId,   \* this.votingContractId is set
    screeningHistory,   \* Map<string, ScreeningResult>
    executionResults,   \* Map<string, ExecutionStatus>
    clock,              \* number of saveResult calls so far (timestamps)
    tasks,              \* the handlers in flight and their locals
    eventClient,        \* index.ts: the WebSocket referred to, NoSocket if null
    isConnecting,       \* index.ts: isConnecting
    reconnectAttempts,  \* index.ts: reconnectAttempts
    sockets,            \* the WebSocket objects created so far and their state
    startCalls,         \* number of startEventStream calls so far
    crashed,            \* an event handler threw: the process has ended
    reconnectTimers,    \* index.ts (earlier revision): pending reconnect timers
    reconnectDelay,     \* index.ts: ms from the last close to its reconnect
    handlers,           \* index.ts: the "message" handlers in flight
    response,           \* parseAIResponse: its argument
    parsed              \* parseAIResponse: what it returned

vars == <<trustedProposers, blockedProposers, apiKey, agentAccountId,
          votingContractId, screeningHistory, executionResults, clock, tasks,
          eventClient, isConnecting, reconnectAttempts, sockets, startCalls,
          crashed, reconnectTimers, reconnectDelay, handlers, response,
          parsed>>

\* The state of the event stream listener.
listener == <<eventClient, isConnecting, reconnectAttempts, sockets,
              startCalls, crashed, reconnectTimers, reconnectDelay, handlers,
              response, parsed>>

\* What the socket handlers of the listener leave alone.
inbound == <<reconnectTimers, reconnectDelay, handlers, response, parsed>>

screener == <<screeningHistory, executionResults, clock, tasks>>

config == <<trustedProposers, blockedProposers, apiKey, agentAccountId,
            votingContractId>>

Sockets == 1..MaxSockets
NoSocket == 0

\* The stream messages of one run, in arrival order.
Handlers == 1..MaxMessages
NoTask == 0

\* A "message" handler not yet started: the events left to handle, the
\* screening it awaits.
IdleHandler == [pc |-> "idle", events |-> <<>>, task |-> NoTask]

\* parseAIResponse not called.
NoResponse == [payload |-> FALSE, decision |-> "absent", reasons |-> FALSE,
               braces |-> FALSE, word |-> "unset"]
NotParsed == [approved |-> FALSE, reasons |-> <<>>]

\* No close handler has scheduled a reconnect yet.
NoDelay == 0 - 1

\* index.ts: the listener before the first startEventStream.
ListenerInit ==
    /\ eventClient = NoSocket
    /\ isConnecting = FALSE
    /\ reconnectAttempts = 0
    /\ sockets = [s \in Sockets |-> "unused"]
    /\ startCalls = 0
    /\ crashed = FALSE
    /\ reconnectTimers = 0
    /\ reconnectDelay = NoDelay
    /\ handlers = [h \in Handlers |-> IdleHandler]
    /\ response = NoResponse
    /\ parsed = NotParsed

\* ------------------------------------------------------------ data values
Reason(tag, arg) == [tag |-> tag, arg |-> arg]

NoExec == [action |-> "none", transactionHash |-> "", error |-> ""]

NoResult == [proposalId |-> NoId, approved |-> FALSE, reasons |-> <<>>,
             timestamp |-> 0, executionResult |-> NoExec]

IdleTask == [kind |-> "none", pc |-> "idle", id |-> NoId, proposer |-> "",
             force |-> FALSE, result |-> NoResult, execRet |-> NoExec,
             method |-> "none", called |-> FALSE, clientOk |-> FALSE,
             aiCalls |-> 0, aiAnswer |-> "none", http |-> 0]

\* ----------------------------------------------------- ProposalScreener
IsBlocked(p) == p # NoProposer /\ p \in blockedProposers

\* Variant: the allow-list is never consulted.
IsTrusted_Never(p) == FALSE

IsTrusted(p) == p # NoProposer /\ p \in trustedProposers

BlockedReason(p) == Reason("blocked_proposer", p)

TrustedReason(p) == Reason("trusted_proposer", p)

\* parseAIResponse on the classes of response text.
ParseAIResponse(text) ==
    CASE text = "json_approve" -> [approved |-> TRUE,
                                   reasons |-> <<Reason("ai", "reasons")>>]
      [] text = "json_reject"  -> [approved |-> FALSE,
                                   reasons |-> <<Reason("ai", "reasons")>>]
      [] text = "text_approve" -> [approved |-> TRUE,
                                   reasons |-> <<Reason("ai", "AI decision: approve")>>]
      [] OTHER                 -> [approved |-> FALSE,
                                   reasons |-> <<Reason("ai", "Failed to parse AI response")>>]

\* The message of the Error askAI throws for a failed provider call.
AskAIError(outcome) ==
    CASE outcome = "network_error"  -> "AI screening failed: fetch failed"
      [] outcome = "http_error"     -> "AI screening failed: Anthropic API error"
      [] outcome = "malformed_body" -> "AI screening failed: malformed body"

NoApiKeyError == "No Anthropic API key configured"

\* Variant: the catch block lets the error decide "approved".
ScreeningErrorDecision_Approves(msg) ==
    [approved |-> TRUE, reasons |-> <<Reason("ai_screening_error", msg)>>]

\* The result screenProposal's catch block saves for an error.
ScreeningErrorDecision(msg) ==
    [approved |-> FALSE, reasons |-> <<Reason("ai_screening_error", msg)>>]

\* Variant: the executed flag is never found set.
IsProposalExecuted_Never(er, id) == FALSE

IsProposalExecuted(er, id) == id \in DOMAIN er /\ er[id].executed = TRUE


\* Variant: the allow-list is checked before the deny-list.
ProposalTier_AllowFirst(p) ==
    IF IsTrusted(p) THEN "allow"
    ELSE IF IsBlocked(p) THEN "deny"
    ELSE "ai"

\* Variant: an allow-listed proposer is still sent to the Judgment Provider.
ProposalTier_NoAllowList(p) ==
    IF IsBlocked(p) THEN "deny" ELSE "ai"

ProposalTier(p) ==
    IF IsBlocked(p) THEN "deny"
    ELSE IF IsTrusted(p) THEN "allow"
    ELSE "ai"

MkResult(id, approved, reasons, ts) ==
    [proposalId |-> id, approved |-> approved, reasons |-> reasons,
     timestamp |-> ts, executionResult |-> NoExec]

\* Variant: the sort is descending, the newest entry is evicted.
Oldest_Newest(hist) ==
    CHOOSE k \in DOMAIN hist :
        \A j \in DOMAIN hist : hist[k].timestamp >= hist[j].timestamp

Oldest(hist) ==
    CHOOSE k \in DOMAIN hist :
        \A j \in DOMAIN hist : hist[k].timestamp <= hist[j].timestamp

\* Variant: saveResult builds the result but does not store it.
SaveResult_Skips(hist, id, approved, reasons, ts) == hist

\* saveResult: store the new result under its id, then evict the entry with
\* the oldest timestamp when the map has grown beyond HistoryCap.
SaveResult(hist, id, approved, reasons, ts) ==
    LET h1 == (id :> MkResult(id, approved, reasons, ts)) @@ hist
    IN  IF Cardinality(DOMAIN h1) > HistoryCap
        THEN [k \in DOMAIN h1 \ {Oldest(h1)} |-> h1[k]]
        ELSE h1

\* executeIfAutonomous (later revision) executes exactly the approved results.
ShouldExecute(result) == result.approved

ApprovedResult(hash) ==
    [action |-> "approved", transactionHash |-> hash, error |-> ""]

FailedResult(err) ==
    [action |-> "failed", transactionHash |-> "", error |-> err]

\* executeViaAgentContract: what it returns (ok) or throws (~ok) for each
\* answer of queuedAgentCall.
ExecuteViaAgentContract(outcome) ==
    CASE outcome = "hash"        -> [ok |-> TRUE, hash |-> "tx_hash", error |-> ""]
      [] outcome = "no_hash"     -> [ok |-> TRUE, hash |-> "fallback_hash", error |-> ""]
      [] outcome = "error_field" -> [ok |-> FALSE, hash |-> "", error |-> "Contract error"]
      [] outcome = "throws"      -> [ok |-> FALSE, hash |-> "", error |-> "agent call failed"]

SuccessStatus(hash) ==
    [executed |-> TRUE, success |-> TRUE, executionTxHash |-> hash,
     executionError |-> ""]

\* Variant: a failed attempt is stored with the executed flag set.
FailureStatus_Executed(err) ==
    [executed |-> TRUE, success |-> FALSE, executionTxHash |-> "",
     executionError |-> err]

FailureStatus(err) ==
    [executed |-> FALSE, success |-> FALSE, executionTxHash |-> "",
     executionError |-> err]

\* Variant: the catch block of approveProposal records executed: true.
RecordedStatus_FailureExecuted(r) ==
    IF r.ok THEN SuccessStatus(r.hash)
    ELSE [FailureStatus(r.error) EXCEPT !.executed = TRUE]

\* approveProposal after the Execution Client answered: the ExecutionStatus
\* it stores and the ExecutionResult it returns.
RecordedStatus(r) ==
    IF r.ok THEN SuccessStatus(r.hash) ELSE FailureStatus(r.error)

ReturnedResult(r) ==
    IF r.ok THEN ApprovedResult(r.hash) ELSE FailedResult(r.error)

AlreadyExecutedError == "already executed"

\* executeIfAutonomous after approveProposal returned er.
WithExecution(result, er) ==
    [result EXCEPT !.executionResult = er,
                   !.reasons = Append(@, Reason("autonomous_action", er.action))]

\* executeIfAutonomous after approveProposal threw msg.
WithExecutionError(result, msg) ==
    [result EXCEPT !.executionResult = FailedResult(msg),
                   !.reasons = Append(@, Reason("execution_failed", msg))]

EmptyMap == [k \in {} |-> NoResult]

Put(map, k, v) == (k :> v) @@ map

\* getScreeningStats().total
ScreeningTotal(hist) == Cardinality(DOMAIN hist)

\* getExecutionStats()
ExecutionStats(er) ==
    [total |-> Cardinality(DOMAIN er),
     successful |-> Cardinality({k \in DOMAIN er :
                                    er[k].executed /\ er[k].success}),
     failed |-> Cardinality({k \in DOMAIN er : ~er[k].success}),
     pending |-> Cardinality({k \in DOMAIN er : ~er[k].executed})]

\* ------------------------------------------------------------ task helpers
DoneTasks == {u \in Tasks : tasks[u].pc = "done"}

\* Requests are interchangeable: slot t is used after slot t-1.
CanStart(t) ==
    /\ tasks[t].kind = "none"
    /\ \A u \in Tasks : u < t => tasks[u].kind # "none"

NewTask(kind, id, p, force) ==
    [IdleTask EXCEPT !.kind = kind, !.id = id, !.proposer = p,
                     !.force = force]

Respond(tk, status) == [tk EXCEPT !.pc = "done", !.http = status]

\* The body POST /screen answers for a returned ScreeningResult.
ScreenResponse(result) ==
    [approved |-> result.approved,
     reasons |-> result.reasons,
     executed |-> result.executionResult # NoExec,
     transactionHash |-> result.executionResult.transactionHash]

\* screenProposal from saveResult on, for a decision d reached without an
\* error: saveResult, then executeIfAutonomous up to its await.
Decide(t, tk, d) ==
    LET ts == clock + 1
        result == MkResult(tk.id, d.approved, d.reasons, ts)
        hist == SaveResult(screeningHistory, tk.id, d.approved, d.reasons, ts)
    IN  /\ clock' = ts
        /\ UNCHANGED executionResults
        /\ IF ShouldExecute(result)
           THEN IF IsProposalExecuted(executionResults, tk.id)
                THEN LET r2 == WithExecutionError(result, AlreadyExecutedError)
                     IN  /\ screeningHistory' = Put(hist, tk.id, r2)
                         /\ tasks' = [tasks EXCEPT ![t] =
                                Respond([tk EXCEPT !.result = r2], 200)]
                ELSE /\ screeningHistory' = hist
                     /\ tasks' = [tasks EXCEPT ![t] =
                            [tk EXCEPT !.result = result, !.pc = "exec_wait",
                                       !.called = TRUE,
                                       !.method = "approve_proposal"]]
           ELSE /\ screeningHistory' = hist
                /\ tasks' = [tasks EXCEPT ![t] =
                       Respond([tk EXCEPT !.result = result], 200)]

\* screenProposal's catch block: saveResult of the error decision, returned
\* without executeIfAutonomous.
DecideError(t, tk, msg) ==
    LET ts == clock + 1
        d == ScreeningErrorDecision(msg)
    IN  /\ clock' = ts
        /\ screeningHistory' =
               SaveResult(screeningHistory, tk.id, d.approved, d.reasons, ts)
        /\ tasks' = [tasks EXCEPT ![t] =
               Respond([tk EXCEPT !.result =
                   MkResult(tk.id, d.approved, d.reasons, ts)], 200)]
        /\ UNCHANGED executionResults

\* Variant: only the proposalId is validated.
BadScreenRequest_IdOnly(id, p) == id = NoId

\* POST /screen's validation: !proposalId || !proposal.
BadScreenRequest(id, p) == id = NoId \/ p = NoProposal

\* ---------------------------------------------------------------- actions
\* POST /screen {proposalId, proposal}: validation, then screenProposal up to
\* its first network await.
StartScreen(t, id, p) ==
    /\ UNCHANGED listener
    /\ CanStart(t)
    /\ UNCHANGED config
    /\ LET tk == NewTask("screen", id, p, FALSE)
       IN  IF BadScreenRequest(id, p)
           THEN /\ tasks' = [tasks EXCEPT ![t] = Respond(tk, 400)]
                /\ UNCHANGED <<screeningHistory, executionResults, clock>>
           ELSE CASE ProposalTier(p) = "deny" ->
                       Decide(t, tk, [approved |-> FALSE,
                                      reasons |-> <<BlockedReason(p)>>])
                  [] ProposalTier(p) = "allow" ->
                       Decide(t, tk, [approved |-> TRUE,
                                      reasons |-> <<TrustedReason(p)>>])
                  [] OTHER ->
                       LET tk2 == [tk EXCEPT !.aiCalls = 1]
                       IN  IF ~apiKey
                           THEN DecideError(t, [tk2 EXCEPT !.aiAnswer = "no_key"],
                                            NoApiKeyError)
                           ELSE /\ tasks' = [tasks EXCEPT ![t] =
                                       [tk2 EXCEPT !.pc = "ai_wait"]]
                                /\ UNCHANGED <<screeningHistory,
                                               executionResults, clock>>

\* The Judgment Provider answers: askAI returns or throws, screenProposal
\* goes on to saveResult and executeIfAutonomous.
AiResponds(t, o) ==
    /\ UNCHANGED listener
    /\ tasks[t].pc = "ai_wait"
    /\ UNCHANGED config
    /\ LET tk == [tasks[t] EXCEPT !.aiAnswer = o]
       IN  IF o \in AiErrors
           THEN DecideError(t, tk, AskAIError(o))
           ELSE Decide(t, tk, ParseAIResponse(o))

\* The Execution Client answers: approveProposal records the ExecutionStatus
\* and returns; the caller (executeIfAutonomous or POST /execute) finishes.
ClientResponds(t, o) ==
    /\ UNCHANGED listener
    /\ tasks[t].pc = "exec_wait"
    /\ tasks[t].kind \in {"screen", "execute"}
    /\ UNCHANGED <<config, clock>>
    /\ LET tk == tasks[t]
           r == ExecuteViaAgentContract(o)
           er == ReturnedResult(r)
       IN  /\ executionResults' = Put(executionResults, tk.id, RecordedStatus(r))
           /\ IF tk.kind = "screen"
              THEN LET r2 == WithExecution(tk.result, er)
                   IN  /\ screeningHistory' = Put(screeningHistory, tk.id, r2)
                       /\ tasks' = [tasks EXCEPT ![t] =
                              Respond([tk EXCEPT !.result = r2,
                                                 !.clientOk = r.ok], 200)]
              ELSE /\ UNCHANGED screeningHistory
                   /\ tasks' = [tasks EXCEPT ![t] =
                          Respond([tk EXCEPT !.execRet = er,
                                             !.clientOk = r.ok], 200)]

\* POST /execute/:proposalId {force?}.
StartExecute(t, id, force) ==
    /\ UNCHANGED listener
    /\ CanStart(t)
    /\ UNCHANGED <<config, clock, screeningHistory, executionResults>>
    /\ LET tk == NewTask("execute", id, "", force)
           screened == id \in DOMAIN screeningHistory
           approved == screened /\ screeningHistory[id].approved
       IN  IF (~screened /\ ~force) \/ (~approved /\ ~force)
                 \/ IsProposalExecuted(executionResults, id)
           THEN tasks' = [tasks EXCEPT ![t] = Respond(tk, 400)]
           ELSE tasks' = [tasks EXCEPT ![t] =
                    [tk EXCEPT !.pc = "exec_wait", !.called = TRUE,
                               !.method = "approve_proposal"]]

\* Variant: only the screening history is cleared.
ClearHistory_ScreeningOnly ==
    /\ UNCHANGED listener
    /\ UNCHANGED <<config, clock, tasks, executionResults>>
    /\ screeningHistory' = EmptyMap

\* DELETE /history: clearHistory.  The handler has no await; the handlers in
\* flight keep their locals.
\* POST /execute/:proposalId: the body it answers with when approveProposal
\* has returned (status 200); the 400 and 500 answers have no success field.
ExecuteResponse(tk) ==
    [success |-> tk.http = 200,
     transactionHash |-> IF tk.http = 200 THEN tk.execRet.transactionHash
                         ELSE ""]

ClearHistory ==
    /\ UNCHANGED listener
    /\ UNCHANGED <<config, clock, tasks>>
    /\ screeningHistory' = EmptyMap
    /\ executionResults' = EmptyMap

\* Request bodies of POST /screen: every id with every proposer, and the two
\* malformed bodies (no proposalId, no proposal).
ScreenInputs ==
    (Ids \X (Proposers \cup {NoProposer}))
        \cup {<<NoId, NoProposer>>, <<1, NoProposal>>}

Init ==
    /\ ListenerInit
    /\ trustedProposers \in SUBSET Proposers
    /\ blockedProposers \in SUBSET Proposers
    /\ apiKey \in BOOLEAN
    /\ agentAccountId \in BOOLEAN
    /\ votingContractId = TRUE
    /\ screeningHistory = EmptyMap
    /\ executionResults = EmptyMap
    /\ clock = 0
    /\ tasks = [t \in Tasks |-> IdleTask]

Next ==
    \/ \E t \in Tasks, in \in ScreenInputs : StartScreen(t, in[1], in[2])
    \/ \E t \in Tasks, o \in AiOutcomes : AiResponds(t, o)
    \/ \E t \in Tasks, o \in ExecOutcomes : ClientResponds(t, o)
    \/ \E t \in Tasks, id \in Ids, force \in BOOLEAN : StartExecute(t, id, force)
    \/ ClearHistory

Spec == Init /\ [][Next]_vars

\* The requests and answers of Spec, with an Execution Client that always
\* answers a call in the end; whether the Judgment Provider answers is left
\* open.  The screener sets no timer (askAI awaits a plain fetch), so no
\* step of its own is there to be scheduled.
SpecSilentProvider ==
    /\ Init
    /\ [][Next]_vars
    /\ WF_vars(\E t \in Tasks, o \in ExecOutcomes : ClientResponds(t, o))

\* ------------------------------------------------------ parseAIResponse
\* A response text, by what parseAIResponse looks at: whether it holds a
\* JSON object (the structured payload), the payload's decision
\* ("other": a value that is not the string approve or reject) and whether
\* its reasons are an array, whether the text around the payload holds
\* braces of its own, so that the span from the first "{" to the last "}"
\* is not the payload, and the word the free text holds.
Resp(payload, decision, reasons, braces, word) ==
    [payload |-> payload, decision |-> decision, reasons |-> reasons,
     braces |-> braces, word |-> word]

ResponseInputs ==
    {Resp(TRUE, d, r, b, w) :
         d \in {"approve", "reject", "other", "absent"}, r \in BOOLEAN,
         b \in BOOLEAN, w \in {"approve", "Approve", "none"}}
        \cup {Resp(FALSE, "absent", FALSE, b, w) :
                  b \in BOOLEAN, w \in {"approve", "Approve", "none"}}

\* response.match(/\{[\s\S]*\}/): the span from the first "{" to the last
\* "}" of the text.
JsonMatch(r) == r.payload \/ r.braces

\* JSON.parse(jsonMatch[0]) returns: the span is the payload.
JsonParses(r) == r.payload /\ ~r.braces

\* parseAIResponse(response), catch block included.
ParseText(r) ==
    IF JsonMatch(r)
    THEN IF JsonParses(r)
         THEN [approved |-> r.decision = "approve",
               reasons |-> IF r.reasons THEN <<Reason("ai", "reasons")>>
                           ELSE <<Reason("ai", "AI provided decision")>>]
         ELSE [approved |-> FALSE,
               reasons |-> <<Reason("ai", "Failed to parse AI response")>>]
    ELSE LET isApprove == r.word # "none"
         IN  [approved |-> isApprove,
              reasons |-> <<Reason("ai", IF isApprove
                                         THEN "AI decision: approve"
                                         ELSE "AI decision: reject")>>]

\* askAI passes the provider's text to parseAIResponse.
ParseResponse ==
    /\ parsed = NotParsed
    /\ response # NoResponse
    /\ parsed' = ParseText(response)
    /\ UNCHANGED <<response, eventClient, isConnecting, reconnectAttempts,
                   sockets, startCalls, crashed, reconnectTimers,
                   reconnectDelay, handlers,
                   config, screener>>

InitParse ==
    /\ eventClient = NoSocket
    /\ isConnecting = FALSE
    /\ reconnectAttempts = 0
    /\ sockets = [s \in Sockets |-> "unused"]
    /\ startCalls = 0
    /\ crashed = FALSE
    /\ reconnectTimers = 0
    /\ reconnectDelay = NoDelay
    /\ handlers = [h \in Handlers |-> IdleHandler]
    /\ response \in ResponseInputs
    /\ parsed = NotParsed
    /\ trustedProposers = {}
    /\ blockedProposers = {}
    /\ apiKey = TRUE
    /\ agentAccountId = TRUE
    /\ votingContractId = TRUE
    /\ screeningHistory = EmptyMap
    /\ executionResults = EmptyMap
    /\ clock = 0
    /\ tasks = [t \in Tasks |-> IdleTask]

NextParse == ParseResponse

SpecParse == InitParse /\ [][NextParse]_vars

\* ------------------------------------------------- a full screening history
\* The ids of HistoryCap earlier screenings, all answered "reject" by the
\* Judgment Provider, one after the other.
OldIds == (NumIds + 1)..(NumIds + HistoryCap)

OldResult(id) ==
    MkResult(id, FALSE, ParseAIResponse("json_reject").reasons, id - NumIds)

\* The screener after those screenings: the history holds HistoryCap entries
\* and the next saveResult of a new id exceeds the cap.
InitCap ==
    /\ ListenerInit
    /\ trustedProposers \in SUBSET Proposers
    /\ blockedProposers \in SUBSET Proposers
    /\ apiKey = TRUE
    /\ agentAccountId \in BOOLEAN
    /\ votingContractId = TRUE
    /\ screeningHistory = [id \in OldIds |-> OldResult(id)]
    /\ executionResults = EmptyMap
    /\ clock = HistoryCap
    /\ tasks = [t \in Tasks |-> IdleTask]

SpecCap == InitCap /\ [][Next]_vars

\* A full history whose oldest entry belongs to a screening still in
\* executeIfAutonomous: proposal 1 was approved by the Judgment Provider and
\* awaits the Execution Client, and HistoryCap - 1 other proposals have been
\* screened (and rejected) since.
PendingResult ==
    MkResult(1, TRUE, ParseAIResponse("json_approve").reasons, 1)

PendingTask ==
    [NewTask("screen", 1, NoProposer, FALSE) EXCEPT
         !.aiCalls = 1, !.aiAnswer = "json_approve", !.result = PendingResult,
         !.pc = "exec_wait", !.called = TRUE, !.method = "approve_proposal"]

LaterIds == (NumIds + 1)..(NumIds + HistoryCap - 1)

LaterResult(id) ==
    MkResult(id, FALSE, ParseAIResponse("json_reject").reasons, id - NumIds + 1)

InitCapPending ==
    /\ ListenerInit
    /\ trustedProposers \in SUBSET Proposers
    /\ blockedProposers \in SUBSET Proposers
    /\ apiKey = TRUE
    /\ agentAccountId \in BOOLEAN
    /\ votingContractId = TRUE
    /\ screeningHistory =
           [id \in LaterIds \cup {1} |->
                IF id = 1 THEN PendingResult ELSE LaterResult(id)]
    /\ executionResults = EmptyMap
    /\ clock = HistoryCap
    /\ tasks = [t \in Tasks |-> IF t = 1 THEN PendingTask ELSE IdleTask]

SpecCapPending == InitCapPending /\ [][Next]_vars

\* ------------------------------------------- earlier revision of the class
\* The constructor's autonomousMode flag.
AutonomousMode == agentAccountId /\ votingContractId

\* shouldExecuteAction: "Execute all approve/reject decisions autonomously".
ShouldExecuteAction(result) == TRUE

\* executeDecision: the contract method sent for a decision.
ExecuteDecision(result) ==
    IF result.approved THEN "approve_proposal" ELSE "reject_proposal"

\* Answers of the TEE execute-transaction endpoint.
TeeOutcomes == {"ok", "fails"}

\* approveProposal / rejectProposal: the ExecutionResult returned for the
\* endpoint's answer; a failed call is answered with a simulated hash.
TeeResult(method, outcome) ==
    [action |-> IF method = "approve_proposal" THEN "approved" ELSE "rejected",
     transactionHash |-> IF outcome = "ok" THEN "tx_hash" ELSE "simulated",
     error |-> ""]

\* askAI's own catch block: a failed provider call becomes a reject decision.
AskAIFailedDecision(outcome) ==
    [approved |-> FALSE, reasons |-> <<Reason("ai", AskAIError(outcome))>>]

SaveResultRev1(hist, id, approved, reasons, ts) ==
    Put(hist, id, MkResult(id, approved, reasons, ts))

\* screenProposal returns to its caller.  A direct caller is done; POST
\* /screen of routes/proposalScreener.ts goes on to its own "auto-execute"
\* block and awaits screener.approveProposal.
ReturnRev1(tk) ==
    IF tk.kind = "route_screen" /\ AutonomousMode /\ tk.result.approved
    THEN [tk EXCEPT !.pc = "route_exec_wait"]
    ELSE Respond(tk, 200)

\* screenProposal from saveResult on: saveResult, then executeIfAutonomous up
\* to its await.
DecideRev1(t, tk, d) ==
    LET ts == clock + 1
        result == MkResult(tk.id, d.approved, d.reasons, ts)
    IN  /\ clock' = ts
        /\ screeningHistory' =
               SaveResultRev1(screeningHistory, tk.id, d.approved, d.reasons, ts)
        /\ UNCHANGED executionResults
        /\ IF AutonomousMode /\ ShouldExecuteAction(result)
           THEN tasks' = [tasks EXCEPT ![t] =
                    [tk EXCEPT !.result = result, !.pc = "exec_wait",
                               !.called = TRUE,
                               !.method = ExecuteDecision(result)]]
           ELSE tasks' = [tasks EXCEPT ![t] =
                    ReturnRev1([tk EXCEPT !.result = result])]

DecideErrorRev1(t, tk, msg) ==
    LET ts == clock + 1
        d == ScreeningErrorDecision(msg)
    IN  /\ clock' = ts
        /\ screeningHistory' =
               SaveResultRev1(screeningHistory, tk.id, d.approved, d.reasons, ts)
        /\ tasks' = [tasks EXCEPT ![t] =
               ReturnRev1([tk EXCEPT !.result =
                   MkResult(tk.id, d.approved, d.reasons, ts)])]
        /\ UNCHANGED executionResults

\* screenProposal(id, proposal) up to its first network await, for a caller
\* of the given kind.
ScreenProposalRev1(t, kind, id, p) ==
    /\ UNCHANGED listener
    /\ CanStart(t)
    /\ UNCHANGED config
    /\ LET tk == NewTask(kind, id, p, FALSE)
       IN  CASE ProposalTier(p) = "deny" ->
                  DecideRev1(t, tk, [approved |-> FALSE,
                                     reasons |-> <<BlockedReason(p)>>])
             [] ProposalTier(p) = "allow" ->
                  DecideRev1(t, tk, [approved |-> TRUE,
                                     reasons |-> <<TrustedReason(p)>>])
             [] OTHER ->
                  LET tk2 == [tk EXCEPT !.aiCalls = 1]
                  IN  IF ~apiKey
                      THEN DecideErrorRev1(t, [tk2 EXCEPT !.aiAnswer = "no_key"],
                                           NoApiKeyError)
                      ELSE /\ tasks' = [tasks EXCEPT ![t] =
                                  [tk2 EXCEPT !.pc = "ai_wait"]]
                           /\ UNCHANGED <<screeningHistory, executionResults,
                                          clock>>

\* screenProposal called directly (the event listener's handleNewProposal).
StartScreenRev1(t, id, p) == ScreenProposalRev1(t, "screen", id, p)

\* POST /screen of routes/proposalScreener.ts with a body that has both
\* fields.
PostScreenRev1(t, id, p) == ScreenProposalRev1(t, "route_screen", id, p)

AiRespondsRev1(t, o) ==
    /\ UNCHANGED listener
    /\ tasks[t].pc = "ai_wait"
    /\ UNCHANGED config
    /\ LET tk == [tasks[t] EXCEPT !.aiAnswer = o]
       IN  IF o \in AiErrors
           THEN DecideRev1(t, tk, AskAIFailedDecision(o))
           ELSE DecideRev1(t, tk, ParseAIResponse(o))

\* The TEE endpoint answers: approveProposal / rejectProposal return and
\* executeIfAutonomous stores the augmented result.
ClientRespondsRev1(t, o) ==
    /\ UNCHANGED listener
    /\ tasks[t].pc = "exec_wait"
    /\ UNCHANGED <<config, clock, executionResults>>
    /\ LET tk == tasks[t]
           r2 == WithExecution(tk.result, TeeResult(tk.method, o))
       IN  /\ screeningHistory' = Put(screeningHistory, tk.id, r2)
           /\ tasks' = [tasks EXCEPT ![t] =
                  ReturnRev1([tk EXCEPT !.result = r2,
                                        !.clientOk = (o = "ok")])]

\* The TEE endpoint answers the approveProposal call of POST /screen: the
\* route drops the outcome and answers with the screening result.
RouteClientRespondsRev1(t, o) ==
    /\ UNCHANGED listener
    /\ tasks[t].pc = "route_exec_wait"
    /\ UNCHANGED <<config, clock, executionResults, screeningHistory>>
    /\ tasks' = [tasks EXCEPT ![t] =
           Respond([tasks[t] EXCEPT
                        !.execRet = TeeResult("approve_proposal", o)], 200)]

\* clearHistory of the earlier revision.
ClearHistoryRev1 ==
    /\ UNCHANGED listener
    /\ UNCHANGED <<config, clock, tasks, executionResults>>
    /\ screeningHistory' = EmptyMap

InitRev1 ==
    /\ ListenerInit
    /\ trustedProposers \in SUBSET Proposers
    /\ blockedProposers \in SUBSET Proposers
    /\ apiKey \in BOOLEAN
    /\ agentAccountId \in BOOLEAN
    /\ votingContractId \in BOOLEAN
    /\ screeningHistory = EmptyMap
    /\ executionResults = EmptyMap
    /\ clock = 0
    /\ tasks = [t \in Tasks |-> IdleTask]

NextRev1 ==
    \/ \E t \in Tasks, id \in Ids, p \in Proposers \cup {NoProposer} :
          StartScreenRev1(t, id, p)
    \/ \E t \in Tasks, o \in AiOutcomes : AiRespondsRev1(t, o)
    \/ \E t \in Tasks, o \in TeeOutcomes : ClientRespondsRev1(t, o)
    \/ ClearHistoryRev1

SpecRev1 == InitRev1 /\ [][NextRev1]_vars

\* The earlier revision with its HTTP route: index.ts:76 mounts
\* routes/proposalScreener.ts on the earlier screener.
NextRouteRev1 ==
    \/ \E t \in Tasks, id \in Ids, p \in Proposers \cup {NoProposer} :
          PostScreenRev1(t, id, p)
    \/ \E t \in Tasks, id \in Ids, p \in Proposers \cup {NoProposer} :
          StartScreenRev1(t, id, p)
    \/ \E t \in Tasks, o \in AiOutcomes : AiRespondsRev1(t, o)
    \/ \E t \in Tasks, o \in TeeOutcomes : ClientRespondsRev1(t, o)
    \/ \E t \in Tasks, o \in TeeOutcomes : RouteClientRespondsRev1(t, o)
    \/ ClearHistoryRev1

SpecRouteRev1 == InitRev1 /\ [][NextRouteRev1]_vars

\* ------------------------------------------------- event stream listener
\* index.ts (later revision).  startEventStream and the handlers it registers
\* run without an await, so each is one action.  VOTING_CONTRACT_ID always
\* has a value (index.ts:596-597), so the first guard of startEventStream
\* never returns.  A socket is "connecting", "open", "aborting" (closed
\* during the handshake: the library emits error, then close), "closing"
\* (the close event is pending) or "closed".

\* ws: close() of a socket; null is not closed.
WsClose(sock, s) ==
    IF s = NoSocket THEN sock
    ELSE [sock EXCEPT ![s] = CASE @ = "connecting" -> "aborting"
                               [] @ = "open"       -> "closing"
                               [] OTHER            -> @]

\* new WebSocket(...): the next object.
NewSocket(sock) ==
    CHOOSE s \in Sockets :
        sock[s] = "unused" /\ \A u \in Sockets : u < s => sock[u] # "unused"

HasUnused(sock) == \E s \in Sockets : sock[s] = "unused"

\* startEventStream run with eventClient = ec, isConnecting = ic and the
\* sockets sock: the values it leaves.
StartFrom(ec, ic, sock) ==
    IF ic
    THEN [eventClient |-> ec, isConnecting |-> ic, sockets |-> sock]
    ELSE LET s1 == WsClose(sock, ec)
             n == NewSocket(s1)
         IN  [eventClient |-> n, isConnecting |-> TRUE,
              sockets |-> [s1 EXCEPT ![n] = "connecting"]]

\* startEventStream called from outside the listener's own handlers (the
\* start-up timer, or any other caller of the function).
StartEventStream ==
    /\ ~crashed
    /\ startCalls < MaxCalls
    /\ isConnecting \/ HasUnused(sockets)
    /\ LET r == StartFrom(eventClient, isConnecting, sockets)
       IN  /\ eventClient' = r.eventClient
           /\ isConnecting' = r.isConnecting
           /\ sockets' = r.sockets
    /\ startCalls' = startCalls + 1
    /\ UNCHANGED <<reconnectAttempts, crashed, inbound, config, screener>>

\* Variant: the "open" handler leaves the attempt counter alone.
SocketOpen_KeepsAttempts(s) ==
    /\ ~crashed
    /\ sockets[s] = "connecting"
    /\ sockets' = [sockets EXCEPT ![s] = "open"]
    /\ IF eventClient = NoSocket \/ sockets'[eventClient] = "connecting"
       THEN /\ crashed' = TRUE
            /\ UNCHANGED isConnecting
       ELSE /\ isConnecting' = FALSE
            /\ UNCHANGED crashed
    /\ UNCHANGED <<reconnectAttempts, eventClient, startCalls, inbound,
                   config, screener>>

\* The "open" handler of socket s.  eventClient!.send throws when
\* eventClient is null or refers to a socket still connecting; nothing
\* catches it.
SocketOpen(s) ==
    /\ ~crashed
    /\ sockets[s] = "connecting"
    /\ sockets' = [sockets EXCEPT ![s] = "open"]
    /\ IF eventClient = NoSocket \/ sockets'[eventClient] = "connecting"
       THEN /\ crashed' = TRUE
            /\ UNCHANGED <<reconnectAttempts, isConnecting>>
       ELSE /\ reconnectAttempts' = 0
            /\ isConnecting' = FALSE
            /\ UNCHANGED crashed
    /\ UNCHANGED <<eventClient, startCalls, inbound, config, screener>>

\* The "error" handler of socket s; the library emits close after it.
SocketError(s) ==
    /\ ~crashed
    /\ sockets[s] \in {"connecting", "open", "aborting"}
    /\ sockets' = WsClose([sockets EXCEPT ![s] = "closing"], eventClient)
    /\ eventClient' = NoSocket
    /\ isConnecting' = FALSE
    /\ UNCHANGED <<reconnectAttempts, startCalls, crashed, inbound, config,
                   screener>>

\* Variant: the "close" handler reconnects once more at the maximum.
SocketClose_OneMore(s) ==
    /\ ~crashed
    /\ sockets[s] \in {"open", "closing"}
    /\ LET s1 == [sockets EXCEPT ![s] = "closed"]
       IN  IF reconnectAttempts <= maxReconnectAttempts
           THEN /\ HasUnused(s1)
                /\ reconnectAttempts' = reconnectAttempts + 1
                /\ LET r == StartFrom(NoSocket, FALSE, s1)
                   IN  /\ eventClient' = r.eventClient
                       /\ isConnecting' = r.isConnecting
                       /\ sockets' = r.sockets
                /\ startCalls' = startCalls + 1
                /\ reconnectDelay' = 0
           ELSE /\ sockets' = s1
                /\ eventClient' = NoSocket
                /\ isConnecting' = FALSE
                /\ UNCHANGED <<reconnectAttempts, startCalls, reconnectDelay>>
    /\ UNCHANGED <<crashed, reconnectTimers, handlers, response, parsed,
                   config, screener>>

\* The "close" handler of socket s, with its call of startEventStream.
SocketClose(s) ==
    /\ ~crashed
    /\ sockets[s] \in {"open", "closing"}
    /\ LET s1 == [sockets EXCEPT ![s] = "closed"]
       IN  IF reconnectAttempts < maxReconnectAttempts
           THEN /\ HasUnused(s1)
                /\ reconnectAttempts' = reconnectAttempts + 1
                /\ LET r == StartFrom(NoSocket, FALSE, s1)
                   IN  /\ eventClient' = r.eventClient
                       /\ isConnecting' = r.isConnecting
                       /\ sockets' = r.sockets
                /\ startCalls' = startCalls + 1
                /\ reconnectDelay' = 0
           ELSE /\ sockets' = s1
                /\ eventClient' = NoSocket
                /\ isConnecting' = FALSE
                /\ UNCHANGED <<reconnectAttempts, startCalls, reconnectDelay>>
    /\ UNCHANGED <<crashed, reconnectTimers, handlers, response, parsed,
                   config, screener>>

InitListener ==
    /\ ListenerInit
    /\ trustedProposers = {}
    /\ blockedProposers = {}
    /\ apiKey = TRUE
    /\ agentAccountId = TRUE
    /\ votingContractId = TRUE
    /\ screeningHistory = EmptyMap
    /\ executionResults = EmptyMap
    /\ clock = 0
    /\ tasks = [t \in Tasks |-> IdleTask]

NextListener ==
    \/ StartEventStream
    \/ \E s \in Sockets : SocketOpen(s)
    \/ \E s \in Sockets : SocketError(s)
    \/ \E s \in Sockets : SocketClose(s)

SpecListener == InitListener /\ [][NextListener]_vars

\* The listener with the callers the repository has: startEventStream is
\* called once by the start-up timer and then only by the close handler.
StartupTimer ==
    /\ startCalls = 0
    /\ StartEventStream

NextMonitor ==
    \/ StartupTimer
    \/ \E s \in Sockets : SocketOpen(s)
    \/ \E s \in Sockets : SocketError(s)
    \/ \E s \in Sockets : SocketClose(s)

SpecMonitor == InitListener /\ [][NextMonitor]_vars

\* ---------------------------------------------------- status reporting
\* The ReconnectState the listener holds.
ReconnectState ==
    [connected |-> eventClient # NoSocket,
     isConnecting |-> isConnecting,
     reconnectAttempts |-> reconnectAttempts,
     maxReconnectAttempts |-> maxReconnectAttempts]

\* index.ts:685-710: createDebugRoutes is given an object literal built when
\* the routes are mounted, so it holds the values the variables had then.
MountedWsState ==
    [eventClient |-> NoSocket, isConnecting |-> FALSE, reconnectAttempts |-> 0]

\* GET /api/debug/websocket-status and GET /debug/websocket-status.
WebsocketStatus ==
    [connected |-> MountedWsState.eventClient # NoSocket,
     isConnecting |-> MountedWsState.isConnecting,
     reconnectAttempts |-> MountedWsState.reconnectAttempts,
     maxReconnectAttempts |-> maxReconnectAttempts]

\* GET /api/screener/stats, its monitoring part: three literals.
StatsMonitoring ==
    [connected |-> TRUE, isConnecting |-> FALSE, reconnectAttempts |-> 0]

\* GET /: eventStream.
HealthEventStream == IF eventClient # NoSocket THEN "connected" ELSE "disconnected"

\* ---------------------------------- event stream listener, earlier revision
\* index.ts:431-547.  The "open" handler is the later revision's; the
\* "error" handler leaves isConnecting alone; the "close" handler leaves the
\* call of startEventStream to a timer.
\* index.ts:520: Math.min(1000 * Math.pow(2, reconnectAttempts), 30000).
BackoffBaseMs == 1000
BackoffCapMs == 30000
BackoffDelay(k) ==
    IF BackoffBaseMs * 2^k < BackoffCapMs THEN BackoffBaseMs * 2^k
    ELSE BackoffCapMs

\* GET /api/debug/websocket-status of the earlier revision (index.ts:79-87)
\* reads the listener's variables when it is asked.
WebsocketStatusRev1 ==
    [connected |-> eventClient # NoSocket,
     isConnecting |-> isConnecting,
     reconnectAttempts |-> reconnectAttempts,
     maxReconnectAttempts |-> maxReconnectAttempts]

\* Variant: the "error" handler schedules a reconnect of its own.
SocketErrorRev1_Reconnects(s) ==
    /\ ~crashed
    /\ sockets[s] \in {"connecting", "open", "aborting"}
    /\ sockets' = WsClose([sockets EXCEPT ![s] = "closing"], eventClient)
    /\ eventClient' = NoSocket
    /\ reconnectTimers' = reconnectTimers + 1
    /\ UNCHANGED <<isConnecting, reconnectAttempts, startCalls, crashed,
                   reconnectDelay, handlers, response, parsed, config,
                   screener>>

SocketErrorRev1(s) ==
    /\ ~crashed
    /\ sockets[s] \in {"connecting", "open", "aborting"}
    /\ sockets' = WsClose([sockets EXCEPT ![s] = "closing"], eventClient)
    /\ eventClient' = NoSocket
    /\ UNCHANGED <<isConnecting, reconnectAttempts, startCalls, crashed,
                   inbound, config, screener>>

SocketCloseRev1(s) ==
    /\ ~crashed
    /\ sockets[s] \in {"open", "closing"}
    /\ sockets' = [sockets EXCEPT ![s] = "closed"]
    /\ eventClient' = NoSocket
    /\ IF reconnectAttempts < maxReconnectAttempts
       THEN /\ reconnectDelay' = BackoffDelay(reconnectAttempts)
            /\ reconnectAttempts' = reconnectAttempts + 1
            /\ reconnectTimers' = reconnectTimers + 1
            /\ UNCHANGED isConnecting
       ELSE /\ isConnecting' = FALSE
            /\ UNCHANGED <<reconnectAttempts, reconnectTimers,
                           reconnectDelay>>
    /\ UNCHANGED <<startCalls, crashed, handlers, response, parsed, config,
                   screener>>

\* The timer set by the "close" handler fires.
ReconnectTimerRev1 ==
    /\ ~crashed
    /\ reconnectTimers > 0
    /\ HasUnused(sockets)
    /\ reconnectTimers' = reconnectTimers - 1
    /\ LET r == StartFrom(eventClient, FALSE, sockets)
       IN  /\ eventClient' = r.eventClient
           /\ isConnecting' = r.isConnecting
           /\ sockets' = r.sockets
    /\ startCalls' = startCalls + 1
    /\ UNCHANGED <<reconnectAttempts, reconnectDelay, crashed, handlers,
                   response, parsed, config, screener>>

NextMonitorRev1 ==
    \/ StartupTimer
    \/ \E s \in Sockets : SocketOpen(s)
    \/ \E s \in Sockets : SocketErrorRev1(s)
    \/ \E s \in Sockets : SocketCloseRev1(s)
    \/ ReconnectTimerRev1

SpecMonitorRev1 == InitListener /\ [][NextMonitorRev1]_vars

\* ------------------------------------------------- stream message handling
\* index.ts (later revision), the "message" handler and the functions it
\* calls.  The handler is an async function: it runs from the arrival of
\* the message to its first network await (fetchProposal, or askAI inside
\* screenProposal) and goes on when the awaited call has returned; the
\* handlers of different messages interleave at these awaits.  An event is
\* [account, id, type, details]: account_id, event_data[0].proposal_id,
\* event_event, and whether event_data[0] carries title and description.
NullId == 0 - 1        \* event_data[0].proposal_id is null

Ev(account, id, type, details) ==
    [account |-> account, id |-> id, type |-> type, details |-> details]

\* The events of one run: for the target contract, creation events with and
\* without details and approval events; a creation event of another
\* contract, one without account_id, one without proposal_id, one whose
\* proposal_id is null, one without event_event, one of an unhandled type.
EventInputs ==
    {Ev("target", id, "create_proposal", d) : id \in Ids, d \in BOOLEAN}
        \cup {Ev("target", id, "approve_proposal", TRUE) : id \in Ids}
        \cup {Ev("other", 1, "create_proposal", TRUE),
              Ev("none", 1, "create_proposal", TRUE),
              Ev("target", NoId, "create_proposal", TRUE),
              Ev("target", NullId, "create_proposal", TRUE),
              Ev("target", 1, "none", TRUE),
              Ev("target", 1, "vote", TRUE)}

\* The events that follow the first one in an array.
LaterEventInputs ==
    {Ev("target", 1, "create_proposal", TRUE),
     Ev("target", 1, "approve_proposal", TRUE)}

\* A stream message: a single event, or an array of an event and later
\* events.
MessageInputs ==
    {<<e>> \o tl : e \in EventInputs,
                   tl \in UNION {[1..n -> LaterEventInputs] :
                                    n \in 0..(MaxEvents - 1)}}

\* Answers of the Proposal Fetcher (the RPC node) seen by fetchProposal.
FetchOutcomes == {"proposal", "error"}

\* One pass of the handler's loop body up to the call it makes:
\* extractProposalId throws on a null proposal_id; an event of another
\* account is skipped, an event without account_id is not; an event
\* without proposalId or eventType is skipped; then the event type decides.
Route(e) ==
    IF e.id = NullId THEN "throw"
    ELSE IF e.account # "none" /\ e.account # "target" THEN "skip"
    ELSE IF e.id = NoId \/ e.type = "none" THEN "skip"
    ELSE IF e.type = "create_proposal" THEN "create"
    ELSE IF e.type = "approve_proposal" THEN "approve"
    ELSE "unhandled"

\* The events at the front of evs that the loop passes without a network
\* await: skipped and unhandled events, and approval events
\* (handleProposalApproval reads the history and logs).
RECURSIVE Passed(_)
Passed(evs) ==
    IF evs = <<>> THEN 0
    ELSE IF Route(Head(evs)) \in {"throw", "create"} THEN 0
    ELSE 1 + Passed(Tail(evs))

Rest(evs, k) == SubSeq(evs, k + 1, Len(evs))

\* The handler h can run: its message has arrived, or the screening it
\* awaits has returned.
Runnable(h) ==
    \/ handlers[h].pc = "run"
    \/ handlers[h].pc = "wait" /\ tasks[handlers[h].task].pc = "done"

\* A returned promise is continued before the next event of the process is
\* taken: nothing else runs while a handler can.
NoneRunnable == \A h \in Handlers : ~Runnable(h)

\* A "message" event of the open socket: the handler is called with the
\* parsed events.
MessageArrives(h, msg) ==
    /\ ~crashed
    /\ NoneRunnable
    /\ \E s \in Sockets : sockets[s] = "open"
    /\ handlers[h].pc = "idle"
    /\ \A g \in Handlers : g < h => handlers[g].pc # "idle"
    /\ handlers' = [handlers EXCEPT ![h] =
           [pc |-> "run", events |-> msg, task |-> NoTask]]
    /\ UNCHANGED <<eventClient, isConnecting, reconnectAttempts, sockets,
                   startCalls, crashed, reconnectTimers, reconnectDelay,
                   response, parsed,
                   config, screener>>

\* The handler h runs its loop from where it stands to the next network
\* await: to the end of the message, to an event whose extraction throws
\* (the catch block ends the handler), or into handleNewProposal, which
\* awaits fetchProposal when title or description is missing and otherwise
\* calls screenProposal, which awaits askAI.
HandlerRuns(h) ==
    /\ ~crashed
    /\ Runnable(h)
    /\ apiKey
    /\ LET evs == IF handlers[h].pc = "run" THEN handlers[h].events
                  ELSE Tail(handlers[h].events)
           rest == Rest(evs, Passed(evs))
       IN  IF rest = <<>>
           THEN /\ handlers' = [handlers EXCEPT ![h] =
                       [pc |-> "done", events |-> <<>>, task |-> NoTask]]
                /\ UNCHANGED tasks
           ELSE IF Route(Head(rest)) = "throw"
           THEN /\ handlers' = [handlers EXCEPT ![h] =
                       [pc |-> "failed", events |-> <<>>, task |-> NoTask]]
                /\ UNCHANGED tasks
           ELSE \E t \in Tasks :
                    /\ CanStart(t)
                    /\ handlers' = [handlers EXCEPT ![h] =
                           [pc |-> "wait", events |-> rest, task |-> t]]
                    /\ LET tk == NewTask("screen", Head(rest).id, NoProposer,
                                         FALSE)
                       IN  tasks' = [tasks EXCEPT ![t] =
                               IF Head(rest).details
                               THEN [tk EXCEPT !.aiCalls = 1, !.pc = "ai_wait"]
                               ELSE [tk EXCEPT !.pc = "fetch_wait"]]
    /\ UNCHANGED <<eventClient, isConnecting, reconnectAttempts, sockets,
                   startCalls, crashed, reconnectTimers, reconnectDelay,
                   response, parsed,
                   config,
                   screeningHistory, executionResults, clock>>

\* The Proposal Fetcher answers: fetchProposal returns the proposal or
\* throws, handleNewProposal warns about a failure and calls screenProposal
\* either way.
FetchResponds(t, o) ==
    /\ NoneRunnable
    /\ apiKey
    /\ tasks[t].pc = "fetch_wait"
    /\ tasks' = [tasks EXCEPT ![t] = [@ EXCEPT !.aiCalls = 1, !.pc = "ai_wait"]]
    /\ UNCHANGED <<listener, config, screeningHistory, executionResults,
                   clock>>

\* The answers of the Judgment Provider and of the Execution Client to a
\* screening started by the listener.
EventAiResponds(t, o) ==
    /\ NoneRunnable
    /\ AiResponds(t, o)

EventClientResponds(t, o) ==
    /\ NoneRunnable
    /\ ClientResponds(t, o)

NextEvents ==
    \/ StartupTimer
    \/ \E s \in Sockets : SocketOpen(s)
    \/ \E h \in Handlers, msg \in MessageInputs : MessageArrives(h, msg)
    \/ \E h \in Handlers : HandlerRuns(h)
    \/ \E t \in Tasks, o \in FetchOutcomes : FetchResponds(t, o)
    \/ \E t \in Tasks, o \in AiOutcomes : EventAiResponds(t, o)
    \/ \E t \in Tasks, o \in ExecOutcomes : EventClientResponds(t, o)

SpecEvents == InitListener /\ [][NextEvents]_vars

\* ================================================================ claims
Range(seq) == {seq[i] : i \in DOMAIN seq}

\* Tasks that have invoked the Execution Client for id.
Callers(tk, id) == {t \in Tasks : tk[t].called /\ tk[t].id = id}

\* 0 unattempted, 1 attempted-failed, 2 attempted-succeeded.
StatusRank(er, id) ==
    IF id \notin DOMAIN er THEN 0
    ELSE IF er[id].executed /\ er[id].success THEN 2
    ELSE 1

\* C1: the check of isProposalExecuted, the Execution Client call and the
\* recording of its result form a critical section per proposal id: no two
\* handlers are between the check and the recording for one id at a time.
C1_PerIdCriticalSection ==
    \A t1, t2 \in Tasks :
        (t1 # t2 /\ tasks[t1].pc = "exec_wait" /\ tasks[t2].pc = "exec_wait")
            => tasks[t1].id # tasks[t2].id

\* C2: when a screening of an id decides "approved" after an earlier
\* screening of that id has finished with a successful execution (and nothing
\* else has touched the id), the Execution Client is not invoked again: it
\* has been invoked once in total, and the second answer is marked executed,
\* carries the already-executed reason and no transaction hash.
C2_SecondScreeningNotExecutedAgain ==
    [][\A t1, t2 \in Tasks :
         ( /\ t1 # t2
           /\ tasks[t1].kind = "screen" /\ tasks[t1].pc = "done"
           /\ tasks[t1].clientOk
           /\ tasks[t1].id \in DOMAIN executionResults
           /\ tasks[t2].pc \in {"idle", "ai_wait"}
           /\ tasks'[t2].kind = "screen" /\ tasks'[t2].id = tasks[t1].id
           /\ tasks'[t2].pc \in {"exec_wait", "done"}
           /\ tasks'[t2].result.approved
           /\ \A t3 \in Tasks \ {t1, t2} : tasks[t3].id # tasks[t1].id )
         => /\ tasks'[t2].pc = "done"
            /\ ~tasks'[t2].called
            /\ Callers(tasks', tasks[t1].id) = {t1}
            /\ ScreenResponse(tasks'[t2].result).executed
            /\ ScreenResponse(tasks'[t2].result).transactionHash = ""
            /\ Reason("execution_failed", AlreadyExecutedError)
                   \in Range(ScreenResponse(tasks'[t2].result).reasons)
      ]_vars

C2_Witness ==
    \E t1, t2 \in Tasks :
        /\ t1 # t2
        /\ tasks[t1].kind = "screen" /\ tasks[t1].pc = "done" /\ tasks[t1].clientOk
        /\ tasks[t2].kind = "screen" /\ tasks[t2].pc = "done"
        /\ tasks[t2].id = tasks[t1].id
        /\ tasks[t2].result.approved /\ ~tasks[t2].called
        /\ tasks[t2].result.executionResult.error = AlreadyExecutedError
        /\ tasks[t2].result.timestamp > tasks[t1].result.timestamp

\* C3: outside clear-all the ExecutionStatus of an id only moves forward
\* (unattempted, attempted-failed, attempted-succeeded); in particular an
\* executed-and-successful status is never changed back.
C3_StatusOnlyMovesForward ==
    [][\A id \in Ids :
         \/ StatusRank(executionResults', id) >= StatusRank(executionResults, id)
         \/ (executionResults' = EmptyMap /\ screeningHistory' = EmptyMap)
      ]_vars

\* C4: isProposalExecuted(id) holds only if an Execution Client call for id
\* has completed successfully and was recorded as successful, and a status
\* becomes executed-and-successful only in the step in which approveProposal
\* receives a successful answer of the Execution Client for that id.
C4_ExecutedOnlyAfterSuccessfulCall ==
    /\ [](\A id \in Ids :
            IsProposalExecuted(executionResults, id)
                => /\ executionResults[id].success
                   /\ \E t \in Tasks : /\ tasks[t].id = id
                                       /\ tasks[t].pc = "done"
                                       /\ tasks[t].clientOk)
    /\ [][\A id \in Ids :
            (StatusRank(executionResults, id) < 2
                /\ StatusRank(executionResults', id) = 2)
            => \E t \in Tasks : /\ tasks[t].pc = "exec_wait"
                                /\ tasks[t].id = id
                                /\ tasks'[t].pc = "done"
                                /\ tasks'[t].clientOk
                                /\ tasks'[t].method = "approve_proposal"
         ]_vars

C4_Witness ==
    \E id \in Ids :
        /\ IsProposalExecuted(executionResults, id)
        /\ \E t \in Tasks : tasks[t].id = id /\ tasks[t].pc = "done"
                            /\ tasks[t].clientOk
        /\ \E t \in Tasks : tasks[t].id = id /\ tasks[t].pc = "done"
                            /\ tasks[t].called /\ ~tasks[t].clientOk

\* A screening that has saved its decision.
Decided(t) == tasks[t].kind = "screen" /\ tasks[t].result.timestamp > 0

\* C5: a screening whose decision is not approved takes no on-chain action:
\* it never invokes the Execution Client and no ExecutionStatus exists
\* because of it.
C5_NoActionWhenNotApproved ==
    \A t \in Tasks :
        (Decided(t) /\ ~tasks[t].result.approved)
            => /\ ~tasks[t].called
               /\ tasks[t].method = "none"
               /\ tasks[t].result.executionResult = NoExec

\* C6: screenProposal invokes the Execution Client only when autonomous
\* execution is enabled, i.e. when both the agent account and the voting
\* contract are configured.
C6_ExecutionOnlyWhenAutonomous ==
    \A t \in Tasks :
        (tasks[t].kind = "screen" /\ tasks[t].called)
            => (agentAccountId /\ votingContractId)

\* C7: a screening of a proposal whose proposer is on the deny-list (also
\* when the proposer is on the allow-list too) returns approved=false with
\* the single blocked-proposer reason and makes no Judgment Provider call.
C7_DenyListRejectsWithoutProvider ==
    \A t \in Tasks :
        (tasks[t].kind = "screen" /\ tasks[t].http # 400
             /\ tasks[t].proposer \in blockedProposers)
            => /\ tasks[t].pc = "done"
               /\ tasks[t].result.approved = FALSE
               /\ tasks[t].result.reasons = <<BlockedReason(tasks[t].proposer)>>
               /\ tasks[t].aiCalls = 0
               /\ tasks[t].aiAnswer = "none"

C7_Witness ==
    \E t \in Tasks :
        /\ tasks[t].kind = "screen" /\ tasks[t].pc = "done"
        /\ tasks[t].proposer \in blockedProposers \cap trustedProposers
        /\ tasks[t].result.reasons = <<BlockedReason(tasks[t].proposer)>>

\* A returned screening of an allow-listed proposer that is not deny-listed.
AllowListed(t) ==
    /\ tasks[t].kind = "screen" /\ tasks[t].http # 400
    /\ tasks[t].proposer \in trustedProposers \ blockedProposers

\* C8 as stated: the result returned for an allow-listed proposer is
\* approved with the single trusted-proposer reason, without a Judgment
\* Provider call.
C8_AllowListSingleReason ==
    \A t \in Tasks :
        (AllowListed(t) /\ tasks[t].pc = "done")
            => /\ tasks[t].result.approved
               /\ tasks[t].result.reasons = <<TrustedReason(tasks[t].proposer)>>
               /\ tasks[t].aiCalls = 0

\* C8 amended: the result for an allow-listed proposer is approved, its
\* decision reason is the single trusted-proposer reason, and the returned
\* list holds after it exactly the one reason executeIfAutonomous appends
\* for the execution outcome; no Judgment Provider call is made.
C8_AllowListApprovesWithoutProvider ==
    \A t \in Tasks :
        AllowListed(t)
            => /\ tasks[t].result.approved
               /\ tasks[t].aiCalls = 0
               /\ tasks[t].aiAnswer = "none"
               /\ tasks[t].result.reasons[1] = TrustedReason(tasks[t].proposer)
               /\ tasks[t].pc = "exec_wait"
                      => tasks[t].result.reasons
                             = <<TrustedReason(tasks[t].proposer)>>
               /\ tasks[t].pc = "done"
                      => /\ Len(tasks[t].result.reasons) = 2
                         /\ tasks[t].result.reasons[2].tag
                                \in {"autonomous_action", "execution_failed"}

C8_Witness ==
    \E t \in Tasks :
        /\ AllowListed(t) /\ tasks[t].pc = "done"
        /\ tasks[t].result.reasons =
               <<TrustedReason(tasks[t].proposer),
                 Reason("autonomous_action", "approved")>>

\* C9: the tiers are ordered and exclusive: askAI is called exactly once by
\* a screening whose proposer is on neither list (or absent) and never when
\* a list matches; with a proposer on both lists the deny-list decides.
C9_TiersOrderedAndExclusive ==
    \A t \in Tasks :
        (tasks[t].kind = "screen" /\ tasks[t].http # 400)
            => /\ tasks[t].proposer \in blockedProposers \cup trustedProposers
                      => tasks[t].aiCalls = 0
               /\ tasks[t].proposer \notin blockedProposers \cup trustedProposers
                      => tasks[t].aiCalls = 1
               /\ tasks[t].proposer \in blockedProposers
                      => tasks[t].result.reasons[1].tag = "blocked_proposer"
               /\ tasks[t].proposer \in trustedProposers \ blockedProposers
                      => tasks[t].result.reasons[1].tag = "trusted_proposer"
               /\ (tasks[t].aiCalls = 1 /\ Decided(t))
                      => tasks[t].result.reasons[1].tag
                             \in {"ai", "ai_screening_error"}

C9_Witness ==
    /\ \E t \in Tasks : /\ tasks[t].kind = "screen" /\ tasks[t].pc = "done"
                        /\ tasks[t].proposer = NoProposer
                        /\ tasks[t].aiCalls = 1
    /\ \E t \in Tasks : /\ tasks[t].kind = "screen" /\ tasks[t].pc = "done"
                        /\ tasks[t].proposer \in trustedProposers
                        /\ tasks[t].aiCalls = 0

\* The Judgment Provider call of task t has failed.
ProviderFailed(tk) == tk.aiAnswer \in AiErrors \cup {"no_key"}

\* C10: when the Judgment Provider call fails, screenProposal returns and
\* stores approved=false with the single reason that carries the provider's
\* error message, and the Execution Client is not invoked.
C10_ProviderErrorRejects ==
    /\ [](\A t \in Tasks :
            ProviderFailed(tasks[t])
                => /\ tasks[t].pc = "done" /\ tasks[t].http = 200
                   /\ tasks[t].result.approved = FALSE
                   /\ Len(tasks[t].result.reasons) = 1
                   /\ tasks[t].result.reasons[1].tag = "ai_screening_error"
                   /\ tasks[t].result.reasons[1].arg =
                          (IF tasks[t].aiAnswer = "no_key" THEN NoApiKeyError
                           ELSE AskAIError(tasks[t].aiAnswer))
                   /\ ~tasks[t].called
                   /\ tasks[t].result.executionResult = NoExec)
    /\ [][\A t \in Tasks :
            (~ProviderFailed(tasks[t]) /\ ProviderFailed(tasks'[t]))
                => /\ tasks'[t].id \in DOMAIN screeningHistory'
                   /\ screeningHistory'[tasks'[t].id] = tasks'[t].result
                   /\ executionResults' = executionResults
         ]_vars

C10_Witness ==
    \E t \in Tasks :
        /\ tasks[t].aiAnswer \in AiErrors /\ tasks[t].pc = "done"
        /\ tasks[t].id \in DOMAIN screeningHistory
        /\ screeningHistory[tasks[t].id] = tasks[t].result
        /\ ~tasks[t].result.approved

\* C11: a call of screenProposal with a proposal id and a proposal present
\* always returns a ScreeningResult, whatever the Judgment Provider and the
\* Execution Client answer (the route answers 200, never the 500 of a thrown
\* error), and at the moment it returns the result stored for the id is the
\* result it returns.
C11_ScreeningAlwaysReturnsStoredResult ==
    /\ [](\A t \in Tasks :
            (tasks[t].kind = "screen" /\ tasks[t].id # NoId
                 /\ tasks[t].proposer # NoProposal)
                => tasks[t].http \in {0, 200})
    /\ [][\A t \in Tasks :
            ( /\ tasks[t].pc # "done" /\ tasks'[t].pc = "done"
              /\ tasks'[t].kind = "screen"
              /\ tasks'[t].id # NoId /\ tasks'[t].proposer # NoProposal )
            => /\ tasks'[t].http = 200
               /\ tasks'[t].result.proposalId = tasks'[t].id
               /\ tasks'[t].id \in DOMAIN screeningHistory'
               /\ screeningHistory'[tasks'[t].id] = tasks'[t].result
         ]_vars

C11_Witness ==
    /\ \E t \in Tasks :
          /\ tasks[t].kind = "screen" /\ tasks[t].pc = "done"
          /\ tasks[t].called /\ ~tasks[t].clientOk
          /\ tasks[t].result.executionResult.action = "failed"
          /\ tasks[t].id \in DOMAIN screeningHistory
          /\ screeningHistory[tasks[t].id] = tasks[t].result
    /\ \E t \in Tasks :
          /\ tasks[t].kind = "screen" /\ tasks[t].pc = "done"
          /\ tasks[t].aiAnswer = "network_error" /\ tasks[t].http = 200

\* C12: when the Execution Client call for an approved proposal fails, the
\* failure is recorded: the ExecutionStatus stored for the id has
\* success=false and the error message, the ScreeningResult gets a "failed"
\* executionResult with that error and one appended reason for the failure,
\* and no transaction hash is reported for the attempt.
C12_FailedCallRecordedAsFailure ==
    /\ [](\A t \in Tasks :
            ( /\ tasks[t].called /\ tasks[t].pc = "done"
              /\ tasks[t].method = "approve_proposal"
              /\ ~tasks[t].clientOk )
            => /\ tasks[t].kind = "screen"
                      => /\ tasks[t].result.executionResult.action = "failed"
                         /\ tasks[t].result.executionResult.error # ""
                         /\ ScreenResponse(tasks[t].result).transactionHash = ""
                         /\ tasks[t].result.reasons[Len(tasks[t].result.reasons)]
                                = Reason("autonomous_action", "failed")
               /\ tasks[t].kind = "execute"
                      => /\ tasks[t].execRet.action = "failed"
                         /\ tasks[t].execRet.transactionHash = "")
    /\ [][\A t \in Tasks :
            ( /\ tasks[t].pc = "exec_wait" /\ tasks'[t].pc = "done"
              /\ tasks'[t].method = "approve_proposal"
              /\ ~tasks'[t].clientOk )
            => /\ tasks'[t].id \in DOMAIN executionResults'
               /\ executionResults'[tasks'[t].id].success = FALSE
               /\ executionResults'[tasks'[t].id].executionError # ""
               /\ executionResults'[tasks'[t].id].executionTxHash = ""
         ]_vars

\* The ExecutionStatus stored for id records a failed attempt.
FailedAttempt(er, id) == id \in DOMAIN er /\ er[id].success = FALSE

\* C13: a failed attempt never blocks a future attempt: the status recorded
\* for a failed Execution Client call has executed=false, and while the
\* status of an id is a failed attempt a POST /execute for the id that is
\* forced or finds an approved ScreeningResult, and a re-screening that
\* decides "approved", invoke the Execution Client again.
C13_FailedAttemptAllowsRetry ==
    /\ [][\A t \in Tasks :
            (tasks[t].pc = "exec_wait" /\ tasks'[t].pc = "done"
                 /\ ~tasks'[t].clientOk)
            => /\ tasks'[t].id \in DOMAIN executionResults'
               /\ executionResults'[tasks'[t].id].executed = FALSE
         ]_vars
    /\ [][\A t \in Tasks :
            ( /\ tasks[t].kind = "none" /\ tasks'[t].kind = "execute"
              /\ FailedAttempt(executionResults, tasks'[t].id)
              /\ \/ tasks'[t].force
                 \/ /\ tasks'[t].id \in DOMAIN screeningHistory
                    /\ screeningHistory[tasks'[t].id].approved )
            => /\ tasks'[t].pc = "exec_wait"
               /\ tasks'[t].called
               /\ tasks'[t].method = "approve_proposal"
         ]_vars
    /\ [][\A t \in Tasks :
            ( /\ tasks[t].pc \in {"idle", "ai_wait"}
              /\ tasks'[t].kind = "screen"
              /\ tasks'[t].pc \in {"exec_wait", "done"}
              /\ tasks'[t].result.approved
              /\ FailedAttempt(executionResults, tasks'[t].id) )
            => /\ tasks'[t].pc = "exec_wait"
               /\ tasks'[t].called
         ]_vars

C13_Witness ==
    \E t1, t2 \in Tasks :
        /\ t1 < t2
        /\ tasks[t1].pc = "done" /\ tasks[t1].called /\ ~tasks[t1].clientOk
        /\ tasks[t2].kind = "execute" /\ tasks[t2].id = tasks[t1].id
        /\ ~tasks[t2].force
        /\ tasks[t2].pc = "exec_wait" /\ tasks[t2].called
        /\ FailedAttempt(executionResults, tasks[t1].id)
        /\ ~IsProposalExecuted(executionResults, tasks[t1].id)

\* C14: POST /execute/:proposalId answers 400, does not invoke the Execution
\* Client and changes no state when (a) the id is unscreened or not approved
\* and force is not set, or (b) the id is already executed, with or without
\* force.
C14_ExecuteRefused ==
    [][\A t \in Tasks :
         ( /\ tasks[t].kind = "none" /\ tasks'[t].kind = "execute"
           /\ \/ /\ ~tasks'[t].force
                 /\ \/ tasks'[t].id \notin DOMAIN screeningHistory
                    \/ ~screeningHistory[tasks'[t].id].approved
              \/ /\ tasks'[t].id \in DOMAIN executionResults
                 /\ executionResults[tasks'[t].id].executed )
         => /\ tasks'[t].pc = "done"
            /\ tasks'[t].http = 400
            /\ ~tasks'[t].called
            /\ tasks'[t].method = "none"
            /\ screeningHistory' = screeningHistory
            /\ executionResults' = executionResults
      ]_vars

C14_Witness ==
    \E t1, t2 \in Tasks :
        /\ tasks[t1].pc = "done" /\ tasks[t1].clientOk
        /\ tasks[t2].kind = "execute" /\ tasks[t2].id = tasks[t1].id
        /\ tasks[t2].force
        /\ tasks[t2].http = 400 /\ ~tasks[t2].called
        /\ IsProposalExecuted(executionResults, tasks[t1].id)

\* C15: POST /screen with proposalId or proposal missing answers 400, leaves
\* the screening history and the execution results unchanged and calls
\* neither the Judgment Provider nor the Execution Client.
C15_BadScreenRequest ==
    [][\A t \in Tasks :
         ( /\ tasks[t].kind = "none" /\ tasks'[t].kind = "screen"
           /\ (tasks'[t].id = NoId \/ tasks'[t].proposer = NoProposal) )
         => /\ tasks'[t].pc = "done"
            /\ tasks'[t].http = 400
            /\ tasks'[t].aiCalls = 0
            /\ ~tasks'[t].called
            /\ tasks'[t].result = NoResult
            /\ screeningHistory' = screeningHistory
            /\ executionResults' = executionResults
      ]_vars

C15_Witness ==
    \E t1, t2 \in Tasks :
        /\ t1 < t2
        /\ tasks[t1].kind = "screen" /\ tasks[t1].pc = "done"
        /\ tasks[t1].clientOk
        /\ tasks[t2].kind = "screen" /\ tasks[t2].proposer = NoProposal
        /\ tasks[t2].id = tasks[t1].id
        /\ tasks[t2].http = 400
        /\ screeningHistory[tasks[t1].id] = tasks[t1].result
        /\ IsProposalExecuted(executionResults, tasks[t1].id)

\* A step of clearHistory.
ClearStep ==
    /\ screeningHistory' = EmptyMap /\ executionResults' = EmptyMap
    /\ tasks' = tasks

\* The ids whose ScreeningResult a step removes.
Removed == DOMAIN screeningHistory \ DOMAIN screeningHistory'

\* C16 as stated: a stored ScreeningResult is removed only by clear-all.
C16_RemovedOnlyByClear ==
    [][Removed # {} => ClearStep]_vars

\* C16 amended: a stored ScreeningResult is removed only by clear-all or by
\* saveResult, which removes one entry, the one with the oldest timestamp,
\* when storing a result makes the history larger than HistoryCap.
C16_RemovedOnlyByClearOrEviction ==
    [][Removed # {} =>
         \/ ClearStep
         \/ /\ clock' = clock + 1
            /\ Cardinality(Removed) = 1
            /\ Cardinality(DOMAIN screeningHistory') >= HistoryCap
            /\ \A id \in Removed :
                  \A j \in DOMAIN screeningHistory' :
                      screeningHistory[id].timestamp
                          <= screeningHistory'[j].timestamp
      ]_vars

C16_Witness ==
    /\ \E id \in OldIds : id \notin DOMAIN screeningHistory
    /\ Cardinality(DOMAIN screeningHistory) = HistoryCap
    /\ \E t \in Tasks : /\ tasks[t].kind = "screen" /\ tasks[t].pc = "done"
                        /\ tasks[t].id \in DOMAIN screeningHistory
                        /\ screeningHistory[tasks[t].id] = tasks[t].result

\* C17: latest wins: the ScreeningResult stored for an id is never replaced
\* by a result that was saved earlier than the one it replaces.
C17_LatestResultWins ==
    [][\A id \in Ids :
         (id \in DOMAIN screeningHistory /\ id \in DOMAIN screeningHistory')
            => screeningHistory'[id].timestamp
                   >= screeningHistory[id].timestamp
      ]_vars

\* The step is taken by a screening (POST /screen).
ScreeningStep ==
    \E t \in Tasks : tasks'[t] # tasks[t] /\ tasks'[t].kind = "screen"

\* C18: execution state is independent of re-screening: no step of a
\* screening alters an ExecutionStatus that is executed-and-successful, and
\* a saveResult that overwrites or evicts a ScreeningResult leaves every
\* ExecutionStatus as it is.
C18_ExecutionStateIndependentOfScreening ==
    [][ScreeningStep =>
          /\ \A id \in Ids :
                StatusRank(executionResults, id) = 2
                    => /\ id \in DOMAIN executionResults'
                       /\ executionResults'[id] = executionResults[id]
          /\ clock' # clock => executionResults' = executionResults
      ]_vars

\* C19: after clearHistory (DELETE /history, the one handler that does not
\* touch a request in flight) no id has a ScreeningResult or an
\* ExecutionStatus and the screening and execution totals read zero.
C19_ClearHistoryEmptiesState ==
    [][tasks' = tasks =>
          /\ DOMAIN screeningHistory' = {}
          /\ DOMAIN executionResults' = {}
          /\ ScreeningTotal(screeningHistory') = 0
          /\ ExecutionStats(executionResults')
                 = [total |-> 0, successful |-> 0, failed |-> 0, pending |-> 0]
          /\ \A id \in Ids : ~IsProposalExecuted(executionResults', id)
      ]_vars

C19_Witness ==
    /\ screeningHistory = EmptyMap
    /\ executionResults = EmptyMap
    /\ \E t \in Tasks : tasks[t].pc = "done" /\ tasks[t].clientOk
                        /\ tasks[t].kind = "screen"
    /\ \E t \in Tasks : tasks[t].pc = "done" /\ tasks[t].called
                        /\ ~tasks[t].clientOk

\* The step is a call of startEventStream that is not made by the close
\* handler.
OutsideStartCall ==
    /\ startCalls' = startCalls + 1
    /\ \A s \in Sockets : sockets'[s] = "closed" => sockets[s] = "closed"

\* C20: startEventStream called while the listener is Connecting
\* (isConnecting) or Connected (eventClient refers to an open socket) is a
\* no-op: no subscription is closed or opened and the ReconnectState is
\* unchanged.
C20_StartIsIdempotent ==
    [][( /\ OutsideStartCall
         /\ \/ isConnecting
            \/ (eventClient # NoSocket /\ sockets[eventClient] = "open") )
        => UNCHANGED <<sockets, eventClient, isConnecting, reconnectAttempts>>
      ]_vars

\* C21: on every successful open the listener is Connected, no longer
\* Connecting, and the attempt counter is zero again: while a socket is open,
\* eventClient refers to it, isConnecting is false, reconnectAttempts is 0
\* and the handler has not thrown.
C21_OpenConnectsAndResets ==
    \A s \in Sockets :
        sockets[s] = "open" =>
            /\ eventClient = s
            /\ ~isConnecting
            /\ reconnectAttempts = 0
            /\ ~crashed

\* A socket is open after earlier closes had raised the counter.
C21_Witness ==
    \E s, u, v \in Sockets :
        /\ u # v
        /\ sockets[u] = "closed"
        /\ sockets[v] = "closed"
        /\ sockets[s] = "open"
        /\ eventClient = s
        /\ reconnectAttempts = 0

\* The "close" handler of socket s runs in this step.
CloseStep(s) == sockets[s] # "closed" /\ sockets'[s] = "closed"

\* C22: on every close with attempt count below the maximum the listener
\* becomes Disconnected (no socket referred to, isConnecting false), the
\* attempt count grows by exactly one and exactly one reconnect (one call of
\* startEventStream) is scheduled for that close.
C22_CloseSchedulesOneReconnect ==
    [][\A s \in Sockets :
          (CloseStep(s) /\ reconnectAttempts < maxReconnectAttempts) =>
              /\ eventClient' = NoSocket
              /\ ~isConnecting'
              /\ reconnectAttempts' = reconnectAttempts + 1
              /\ reconnectTimers' = reconnectTimers + 1
              /\ startCalls' = startCalls]_vars

\* The "open" handler of some socket runs in this step.
OpenStep == \E s \in Sockets : sockets[s] = "connecting" /\ sockets'[s] = "open"

\* No reconnect is scheduled in this step and the listener is Disconnected
\* after it.
StaysDisconnected ==
    /\ startCalls' = startCalls
    /\ reconnectTimers' = reconnectTimers
    /\ eventClient' = NoSocket
    /\ ~isConnecting'

\* The counter never exceeds the maximum and decreases only in an open.
CounterBounded ==
    /\ reconnectAttempts' <= maxReconnectAttempts
    /\ reconnectAttempts' < reconnectAttempts => OpenStep

\* The attempts are used up: the counter is at the maximum and no socket
\* and no reconnect is left.
Exhausted ==
    /\ reconnectAttempts = maxReconnectAttempts
    /\ reconnectTimers = 0
    /\ \A s \in Sockets : sockets[s] \in {"unused", "closed"}

\* C23 as stated: the counter never exceeds maxReconnectAttempts and never
\* decreases between successful opens, and once max consecutive closes have
\* happened with no open in between (the counter is at the maximum) no
\* reconnect is scheduled and the listener is and stays Disconnected.
C23_DisconnectedAfterMaxCloses ==
    [][/\ CounterBounded
       /\ reconnectAttempts = maxReconnectAttempts => StaysDisconnected]_vars

\* C23, amended: the counter never exceeds maxReconnectAttempts and never
\* decreases between successful opens; a close that finds the counter at
\* the maximum (the close after max consecutive closes) schedules no
\* reconnect and leaves the listener Disconnected, and from then on the
\* listener stays Disconnected with no further call of startEventStream.
C23_DisconnectedAfterExhaustion ==
    [][/\ CounterBounded
       /\ \A s \in Sockets :
              (CloseStep(s) /\ reconnectAttempts = maxReconnectAttempts) =>
                  StaysDisconnected /\ Exhausted'
       /\ Exhausted => StaysDisconnected /\ Exhausted']_vars

\* The attempts have been used up after a run of closes.
C23_Witness ==
    /\ Exhausted
    /\ eventClient = NoSocket
    /\ ~isConnecting
    /\ Cardinality({s \in Sockets : sockets[s] = "closed"})
           > maxReconnectAttempts

\* The handler h of a stream message runs in this step.
HandlerStep(h) == Runnable(h) /\ handlers'[h] # handlers[h]

\* The events its loop has before it in this step.
StepEvents(h) ==
    IF handlers[h].pc = "run" THEN handlers[h].events
    ELSE Tail(handlers[h].events)

\* The events the loop passes in this step without a screening.
PassedEvents(h) ==
    {StepEvents(h)[i] : i \in 1..Passed(StepEvents(h))}

\* The step ends in handleNewProposal for the event Entered(h).
Enters(h) == HandlerStep(h) /\ handlers'[h].pc = "wait"
Entered(h) == Head(handlers'[h].events)

\* C25: an inbound event is routed to screening (handleNewProposal) or to
\* approval handling (handleProposalApproval) only if its accountId is the
\* target contract; every other event is passed with no state change.
C25_RoutedOnlyForTarget ==
    [][\A h \in Handlers :
          /\ Enters(h) => Entered(h).account = "target"
          /\ HandlerStep(h) =>
                 \A e \in PassedEvents(h) :
                     e.account # "target" => Route(e) = "skip"]_vars

\* The event lacks a proposalId or an eventType, or its eventType is
\* neither creation-type nor approval-type.
Incomplete(e) ==
    \/ e.id \in {NoId, NullId}
    \/ e.type \notin {"create_proposal", "approve_proposal"}

\* The event at which the loop of handler h stops in this step.
StopsAt(h) == Rest(StepEvents(h), Passed(StepEvents(h)))

\* C26: an inbound event that lacks a proposalId or an eventType, or whose
\* eventType is neither creation-type nor approval-type, is ignored: the
\* handler raises no error at it, starts no screening for it (no Judgment
\* Provider and no Execution Client call), and the screening history and
\* the execution results stay as they are.
C26_IncompleteEventIgnored ==
    [][\A h \in Handlers :
          HandlerStep(h) =>
              /\ screeningHistory' = screeningHistory
              /\ executionResults' = executionResults
              /\ (StopsAt(h) # <<>> /\ Incomplete(Head(StopsAt(h)))) =>
                     handlers'[h].pc \notin {"failed", "wait"}]_vars

\* A screening of id starts in this step.
ScreeningStarts(id) ==
    \E t \in Tasks :
        /\ tasks[t].kind = "none"
        /\ tasks'[t].kind = "screen"
        /\ tasks'[t].id = id

\* C27: when an approval-type event arrives for an id that has no stored
\* ScreeningResult, the listener screens that proposal now; when a result
\* exists, the approval starts no screening.
C27_ApprovalCatchesUp ==
    [][\A h \in Handlers :
          HandlerStep(h) =>
              \A e \in PassedEvents(h) :
                  Route(e) = "approve" =>
                      IF e.id \notin DOMAIN screeningHistory
                      THEN ScreeningStarts(e.id)
                      ELSE ~Enters(h) => tasks' = tasks]_vars

\* C28: every creation-type event for the target contract that carries a
\* proposalId leads to a stored ScreeningResult for that id: a handler does
\* not end while a creation event of its message is still unhandled, the
\* Proposal Fetcher is called first exactly when title or description is
\* missing, whatever the Proposal Fetcher answers the screening is started,
\* and a screening that returns has stored a result for its id.
C28_CreationLeadsToScreening ==
    [][/\ \A h \in Handlers :
              /\ (HandlerStep(h) /\ handlers'[h].pc \in {"done", "failed"}) =>
                     \A i \in DOMAIN StopsAt(h) :
                         Route(StopsAt(h)[i]) # "create"
              /\ Enters(h) =>
                     /\ tasks'[handlers'[h].task].id = Entered(h).id
                     /\ tasks'[handlers'[h].task].pc =
                            IF Entered(h).details THEN "ai_wait"
                            ELSE "fetch_wait"
       /\ \A t \in Tasks :
              /\ (tasks[t].pc = "fetch_wait" /\ tasks'[t] # tasks[t]) =>
                     tasks'[t].pc = "ai_wait"
              /\ (tasks[t].pc # "done" /\ tasks'[t].pc = "done") =>
                     tasks'[t].id \in DOMAIN screeningHistory']_vars

\* The handler g has not finished a creation event of the target contract
\* for id: it awaits its screening or has it still before it.
CreationUnfinished(g, id) ==
    \E i \in DOMAIN handlers[g].events :
        /\ Route(handlers[g].events[i]) = "create"
        /\ handlers[g].events[i].account = "target"
        /\ handlers[g].events[i].id = id

\* C29: events for the same proposalId are handled in arrival order, also
\* across stream messages: when the handler of a message handles an approval
\* event for an id, no handler of an earlier message has a creation event
\* for that id unfinished.
C29_CreationBeforeLaterApproval ==
    [][\A h \in Handlers :
          HandlerStep(h) =>
              \A e \in PassedEvents(h) :
                  Route(e) = "approve" =>
                      \A g \in Handlers :
                          g < h => ~CreationUnfinished(g, e.id)]_vars

\* C30: every screenProposal call returns a result in the end, also when
\* the Judgment Provider never answers: a screening that awaits the
\* Judgment Provider leads to a screening that has returned.
C30_ScreeningReturns ==
    \A t \in Tasks :
        (tasks[t].kind = "screen" /\ tasks[t].pc = "ai_wait")
            ~> (tasks[t].pc = "done")

\* C31: the listener status the status endpoints report always equals the
\* current ReconnectState; once the attempts are used up the report shows
\* the stream as not connected with the attempt count at the maximum.
C31_StatusEqualsReconnectState ==
    /\ WebsocketStatus = ReconnectState
    /\ StatsMonitoring.connected = ReconnectState.connected
    /\ StatsMonitoring.isConnecting = ReconnectState.isConnecting
    /\ StatsMonitoring.reconnectAttempts = ReconnectState.reconnectAttempts
    /\ HealthEventStream = "connected" <=> ReconnectState.connected
    /\ Exhausted =>
           /\ ~WebsocketStatus.connected
           /\ WebsocketStatus.reconnectAttempts = maxReconnectAttempts

\* No decision can be extracted from the response: it holds a payload that
\* names neither approve nor reject.  (Without a payload the keyword decides:
\* approve if the word is there, reject if not.)
NoDecision(r) == r.payload /\ r.decision \notin {"approve", "reject"}

\* C32: parseAIResponse yields approve exactly when the response holds a
\* structured payload whose decision is approve, or holds no structured
\* payload and contains the word approve (in any case of letters); a
\* response from which no decision can be extracted yields reject with the
\* could-not-parse reason.
C32_ParseAIResponse ==
    parsed # NotParsed =>
        /\ parsed.approved <=>
               \/ response.payload /\ response.decision = "approve"
               \/ ~response.payload /\ response.word # "none"
        /\ NoDecision(response) =>
               /\ ~parsed.approved
               /\ parsed.reasons =
                      <<Reason("ai", "Failed to parse AI response")>>

\* The delay the backoff rule gives to the reconnect after k attempts.
ClaimedDelay(k) ==
    LET d == 1000 * 2^k IN IF d < 30000 THEN d ELSE 30000

\* C33: the reconnect scheduled by a close is delayed by min(base * 2^k, cap)
\* ms with base 1000, cap 30000 and k the attempt count before the
\* increment; over consecutive closes (no open in between) the delays do not
\* decrease, and no delay exceeds the cap.
C33_ReconnectDelay ==
    [][\A s \in Sockets :
          (CloseStep(s) /\ reconnectAttempts < maxReconnectAttempts) =>
              /\ reconnectDelay' = ClaimedDelay(reconnectAttempts)
              /\ reconnectAttempts > 0 => reconnectDelay' >= reconnectDelay
              /\ reconnectDelay' <= 30000]_vars

\* The Execution Client invocations request t has caused so far: the one of
\* screenProposal (executeIfAutonomous) and the one of the route itself.
Invocations(t) ==
    (IF tasks[t].called THEN 1 ELSE 0)
    + (IF tasks[t].pc = "route_exec_wait" \/ tasks[t].execRet # NoExec
       THEN 1 ELSE 0)

\* C34: one POST /screen request for an approved proposal in autonomous mode
\* causes at most one Execution Client invocation.
C34_OneInvocationPerScreenRequest ==
    \A t \in Tasks :
        (tasks[t].kind \in {"screen", "route_screen"}
            /\ tasks[t].result # NoResult /\ tasks[t].result.approved) =>
                Invocations(t) <= 1

\* Request t invokes the Execution Client in this step.
InvokesClient(t) == tasks[t].pc # "exec_wait" /\ tasks'[t].pc = "exec_wait"

\* The Execution Client has answered an earlier request for the id with
\* success.
SucceededFor(id) == \E u \in Tasks : tasks[u].clientOk /\ tasks[u].id = id

\* C35: once the Execution Client has succeeded for an id it is not invoked
\* for that id again, whatever happened in between (clearHistory included).
C35_NoInvocationAfterSuccess ==
    [][\A t \in Tasks : InvokesClient(t) => ~SucceededFor(tasks'[t].id)]_vars

\* POST /execute request t answers in this step.
ExecuteAnswers(t) ==
    /\ tasks'[t].kind = "execute"
    /\ tasks[t].pc # "done" /\ tasks'[t].pc = "done"

\* C36: whenever POST /execute/:proposalId answers with success: true, the
\* Execution Client call it made for the id succeeded and
\* isProposalExecuted(id) is true after the answer.
C36_SuccessMeansExecuted ==
    [][\A t \in Tasks :
          (ExecuteAnswers(t) /\ ExecuteResponse(tasks'[t]).success) =>
              /\ tasks'[t].called /\ tasks'[t].clientOk
              /\ IsProposalExecuted(executionResults', tasks'[t].id)]_vars

\* The subscriptions that are open or being opened.
LiveSockets == {s \in Sockets : sockets[s] \in {"connecting", "open"}}

\* C37: at any time at most one stream subscription is open or opening and
\* at most one reconnect is pending, and every open subscription is the one
\* eventClient refers to.
C37_OneSubscriptionOneReconnect ==
    /\ Cardinality(LiveSockets) <= 1
    /\ reconnectTimers <= 1
    /\ \A s \in Sockets : sockets[s] = "open" => eventClient = s

\* A reconnect has been made, its subscription has closed as well and the
\* next reconnect is pending.
C37_Witness ==
    /\ reconnectTimers = 1
    /\ startCalls >= 2
    /\ \E s \in Sockets : sockets[s] = "closed"
    /\ reconnectAttempts >= 1

\* The handshake of the subscription eventClient refers to has succeeded.
OpenSucceeded == eventClient # NoSocket /\ sockets[eventClient] # "connecting"

\* C38: the reported ReconnectState is one of Disconnected, Connecting,
\* Connected: the reported connected flag and the reported isConnecting flag
\* are never both true, and connected is reported only after a successful
\* open.
C38_ReportedStateIsOneOfThree ==
    /\ ~(WebsocketStatusRev1.connected /\ WebsocketStatusRev1.isConnecting)
    /\ WebsocketStatusRev1.connected => OpenSucceeded

\* The handler h ends in this step with events of its message left behind
\* the one its loop stopped at.
LeftBehind(h) ==
    IF HandlerStep(h) /\ handlers'[h].pc \in {"done", "failed"}
          /\ StopsAt(h) # <<>>
    THEN Tail(StopsAt(h))
    ELSE <<>>

\* C39: within one message a malformed or discarded event does not keep the
\* events after it from being processed: no handler ends while an event
\* that is routed to screening or to approval handling is still behind the
\* event it stopped at.
C39_RestOfMessageProcessed ==
    [][\A h \in Handlers :
          \A i \in DOMAIN LeftBehind(h) :
              Route(LeftBehind(h)[i]) \notin {"create", "approve"}]_vars

\* C40: after any sequence and any interleaving of screenings the screening
\* history holds at most HistoryCap entries.
C40_HistoryWithinCap == Cardinality(DOMAIN screeningHistory) <= HistoryCap

====
